---- MODULE Spec2Model ----
(***************************************************************************)
(* A model of google-searchconsole: the immutable Query builder, the       *)
(* pagination loop of Query.get() with the Report it assembles, and the    *)
(* credential layer behind authenticate().                                 *)
(*                                                                         *)
(* Python dicts are functions from keys to values: d.update(p) is p @@ d,  *)
(* d.get(k, v) is Get(d, k, v).  Query objects live in the sequence objs   *)
(* (an object's identity is its index); the one nested structure the code  *)
(* mutates in place, the dimensionFilterGroups list, lives in the heap     *)
(* lists and a raw dict holds a reference to it.                           *)
(***************************************************************************)
EXTENDS Integers, Sequences, FiniteSets, TLC

VARIABLES
    objs,       \* the Query objects created so far
    lists,      \* heap of dimensionFilterGroups lists
    lastcall,   \* the last mutator call: op, receiver, result, arguments
    today,      \* datetime.date.today()
    data,       \* number of rows the API holds for the queried property
    run,        \* the get() call in progress or last finished
    full,       \* a Report kept by the caller (full_report = q.get())
    clock,      \* time.time(), in ticks
    locks,      \* the _lock attribute of the Query objects that have their own
    fs,         \* the credential file: what is on disk at the path
    held,       \* the Credentials the caller holds (those of its Account)
    sites,      \* the site entries the account's sites().list() returns
    call        \* the last call into the auth layer and how it ended

vars == <<objs, lists, lastcall, today, data, run, full, clock, locks, fs, held,
         sites, call>>

queryVars == <<objs, lists, lastcall>>
envVars == <<today, sites>>
getVars == <<data, run, full, clock, locks>>
authVars == <<fs, held, call>>

----------------------------------------------------------------------------
(* Bounds of the model *)

MaxObjs == 3        \* Query objects the caller creates
MaxLimit == 2       \* small totals passed to limit()
MaxStart == 2       \* small start offsets passed to limit()
MaxRows == 4        \* rows of a small dataset
MaxClock == 3       \* ticks the clock is followed for

(* Program constants *)

DefaultRowLimit == 25000
PageCap == 25000

\* one second, in ticks of the clock
Second == 2

\* time.time() when the program starts: more than a second after time 0
Epoch == Second

\* Query._lock = 0, the class attribute
ClassLock == 0

----------------------------------------------------------------------------
(* Python dicts *)

EmptyDict == [k \in {} |-> 0]

Get(d, k, default) == IF k \in DOMAIN d THEN d[k] ELSE default

Update(d, p) == p @@ d

Min(a, b) == IF a <= b THEN a ELSE b

----------------------------------------------------------------------------
(* utils.py: dates.  A date is <<year, month, day>>; a string is the       *)
(* sequence of its characters.                                             *)

Digits == <<"0", "1", "2", "3", "4", "5", "6", "7", "8", "9">>

DigitOf(c) == CHOOSE n \in 0..9 : Digits[n + 1] = c

IsDigit(c) == \E n \in 0..9 : Digits[n + 1] = c

IsLeap(y) == (y % 4 = 0 /\ y % 100 # 0) \/ y % 400 = 0

DaysInMonth(y, m) ==
    IF m = 2 THEN (IF IsLeap(y) THEN 29 ELSE 28)
    ELSE IF m \in {4, 6, 9, 11} THEN 30 ELSE 31

IsDate(y, m, d) == m \in 1..12 /\ d >= 1 /\ d <= DaysInMonth(y, m)

\* datetime.date.isoformat()
IsoFormat(date) ==
    LET y == date[1]
        m == date[2]
        d == date[3]
    IN <<Digits[((y \div 1000) % 10) + 1], Digits[((y \div 100) % 10) + 1],
         Digits[((y \div 10) % 10) + 1], Digits[(y % 10) + 1], "-",
         Digits[(m \div 10) + 1], Digits[(m % 10) + 1], "-",
         Digits[(d \div 10) + 1], Digits[(d % 10) + 1]>>

\* dateutil.parser.parse on the strings the model passes: YYYY-MM-DD parses,
\* anything else raises ValueError
IsIsoString(s) ==
    /\ Len(s) = 10
    /\ s[5] = "-" /\ s[8] = "-"
    /\ \A i \in {1, 2, 3, 4, 6, 7, 9, 10} : IsDigit(s[i])
    /\ IsDate(1000 * DigitOf(s[1]) + 100 * DigitOf(s[2]) + 10 * DigitOf(s[3])
                  + DigitOf(s[4]),
              10 * DigitOf(s[6]) + DigitOf(s[7]),
              10 * DigitOf(s[9]) + DigitOf(s[10]))

ParseIso(s) ==
    <<1000 * DigitOf(s[1]) + 100 * DigitOf(s[2]) + 10 * DigitOf(s[3])
          + DigitOf(s[4]),
      10 * DigitOf(s[6]) + DigitOf(s[7]),
      10 * DigitOf(s[9]) + DigitOf(s[10])>>

NextDay(date) ==
    IF date[3] < DaysInMonth(date[1], date[2])
    THEN <<date[1], date[2], date[3] + 1>>
    ELSE IF date[2] < 12 THEN <<date[1], date[2] + 1, 1>>
    ELSE <<date[1] + 1, 1, 1>>

PrevDay(date) ==
    IF date[3] > 1 THEN <<date[1], date[2], date[3] - 1>>
    ELSE IF date[2] > 1
         THEN <<date[1], date[2] - 1, DaysInMonth(date[1], date[2] - 1)>>
    ELSE <<date[1] - 1, 12, 31>>

RECURSIVE AddDays(_, _)
AddDays(date, n) ==
    IF n = 0 THEN date
    ELSE IF n > 0 THEN AddDays(NextDay(date), n - 1)
    ELSE AddDays(PrevDay(date), n + 1)

\* date + relativedelta(days=days, months=months): the months first, the day
\* clipped to the length of the month reached, then the days
AddDelta(date, days, months) ==
    LET total == date[1] * 12 + (date[2] - 1) + months
        y == total \div 12
        m == (total % 12) + 1
        d == Min(date[3], DaysInMonth(y, m))
    IN AddDays(<<y, m, d>>, days)

DateLE(a, b) ==
    \/ a[1] < b[1]
    \/ a[1] = b[1] /\ a[2] < b[2]
    \/ a[1] = b[1] /\ a[2] = b[2] /\ a[3] <= b[3]

(* Arguments of range(): None, a datetime.date, or a str *)
NoneArg == [kind |-> "none", v |-> <<>>]
DateArg(date) == [kind |-> "date", v |-> date]
StrArg(s) == [kind |-> "str", v |-> s]

StrToday == <<"t", "o", "d", "a", "y">>
StrYesterday == <<"y", "e", "s", "t", "e", "r", "d", "a", "y">>

\* parse_description(s)
parse_description(s, now) ==
    IF s = StrToday THEN [ok |-> TRUE, none |-> FALSE, v |-> now]
    ELSE IF s = StrYesterday
         THEN [ok |-> TRUE, none |-> FALSE, v |-> AddDelta(now, -1, 0)]
    ELSE [ok |-> FALSE, none |-> FALSE, v |-> now]

\* normalize(obj): ok is FALSE when it raises ValueError
normalize(obj, now) ==
    IF obj.kind = "none" THEN [ok |-> TRUE, none |-> TRUE, v |-> now]
    ELSE IF obj.kind = "date" THEN [ok |-> TRUE, none |-> FALSE, v |-> obj.v]
    ELSE IF IsIsoString(obj.v)
         THEN [ok |-> TRUE, none |-> FALSE, v |-> ParseIso(obj.v)]
    ELSE parse_description(obj.v, now)

\* variants of daterange: the offset taken as it is or moved one day towards
\* start, the pair sorted or not, a stop given with an offset refused or not
DaterangeVariant(start, stop, days, months, now, adjust, sort, refuse) ==
    LET yesterday == AddDelta(now, -1, 0)
        nstart == normalize(start, now)
        nstop == normalize(stop, now)
        s == IF nstart.none THEN yesterday ELSE nstart.v
        is_past == days < 0 \/ months < 0
        offset == days # 0 \/ months # 0
        d == IF ~adjust THEN days ELSE IF is_past THEN days + 1 ELSE days - 1
        e == IF offset /\ (refuse \/ nstop.none) THEN AddDelta(s, d, months)
             ELSE IF nstop.none THEN s ELSE nstop.v
        lo == IF sort /\ ~DateLE(s, e) THEN e ELSE s
        hi == IF sort /\ ~DateLE(s, e) THEN s ELSE e
    IN IF ~nstart.ok \/ ~nstop.ok
       THEN [err |-> "ValueError", start |-> <<>>, stop |-> <<>>]
       ELSE IF refuse /\ offset /\ ~nstop.none
       THEN [err |-> "Exception", start |-> <<>>, stop |-> <<>>]
       ELSE [err |-> "", start |-> IsoFormat(lo), stop |-> IsoFormat(hi)]

\* a daterange whose offset counts from the day after start
DaterangeNoAdjust(start, stop, days, months, now) ==
    DaterangeVariant(start, stop, days, months, now, FALSE, TRUE, TRUE)

\* a daterange that returns (start, stop) as computed
DaterangeUnsorted(start, stop, days, months, now) ==
    DaterangeVariant(start, stop, days, months, now, TRUE, FALSE, TRUE)

\* a daterange in which an explicit stop wins over an offset
DaterangeStopWins(start, stop, days, months, now) ==
    DaterangeVariant(start, stop, days, months, now, TRUE, TRUE, FALSE)

\* daterange(start, stop, days, months): err is "" when it returns
daterange(start, stop, days, months, now) ==
    LET yesterday == AddDelta(now, -1, 0)
        nstart == normalize(start, now)
        nstop == normalize(stop, now)
        s == IF nstart.none THEN yesterday ELSE nstart.v
        is_past == days < 0 \/ months < 0
        offset == days # 0 \/ months # 0
        d == IF is_past THEN days + 1 ELSE days - 1
        e == IF offset THEN AddDelta(s, d, months)
             ELSE IF nstop.none THEN s ELSE nstop.v
        lo == IF DateLE(s, e) THEN s ELSE e
        hi == IF DateLE(s, e) THEN e ELSE s
    IN IF ~nstart.ok \/ ~nstop.ok
       THEN [err |-> "ValueError", start |-> <<>>, stop |-> <<>>]
       ELSE IF offset /\ ~nstop.none
       THEN [err |-> "Exception", start |-> <<>>, stop |-> <<>>]
       ELSE [err |-> "", start |-> IsoFormat(lo), stop |-> IsoFormat(hi)]

----------------------------------------------------------------------------
(* query.py: Query *)

\* Query.__init__(api, parameters, metadata)
QueryInit(api, parameters, metadata) ==
    [api |-> api,
     raw |-> Update([startRow |-> 0, rowLimit |-> DefaultRowLimit], parameters),
     meta |-> Update(EmptyDict, metadata)]

\* deepcopy(self.raw): a copy of the dict whose filter-group list is a new
\* list with the same content
DeepCopyRaw(ls, raw) ==
    IF "dimensionFilterGroups" \in DOMAIN raw
    THEN [lists |-> Append(ls, ls[raw.dimensionFilterGroups]),
          raw |-> [dimensionFilterGroups |-> Len(ls) + 1] @@ raw]
    ELSE [lists |-> ls, raw |-> raw]

\* a clone that hands self.raw to the constructor without deepcopy: the new
\* dict holds the receiver's own list
ShallowClone(h, i) ==
    [objs |-> Append(h.objs,
                     QueryInit(h.objs[i].api, h.objs[i].raw, h.objs[i].meta)),
     lists |-> h.lists,
     new |-> Len(h.objs) + 1]

\* Query.clone(): the heap with the clone in it, new is the clone
Clone(h, i) ==
    LET dc == DeepCopyRaw(h.lists, h.objs[i].raw)
    IN [objs |-> Append(h.objs,
                        QueryInit(h.objs[i].api, dc.raw, h.objs[i].meta)),
        lists |-> dc.lists,
        new |-> Len(h.objs) + 1]

SetRaw(h, j, p) == [h EXCEPT !.objs[j].raw = Update(@, p)]

\* Query.range, after daterange returned (start, stop)
range_(h, j, start, stop) == SetRaw(h, j, [startDate |-> start, endDate |-> stop])

\* Query.dimension(*dimensions)
dimension_(h, j, dimensions) == SetRaw(h, j, [dimensions |-> dimensions])

\* Query.filter(dimension, expression, operator, group_type)
filter_(h, j, dimension, expression, operator, group_type) ==
    LET dimension_filter == [dimension |-> dimension,
                             expression |-> expression,
                             operator |-> operator]
        filter_group == [groupType |-> group_type,
                         filters |-> <<dimension_filter>>]
        h1 == IF "dimensionFilterGroups" \in DOMAIN h.objs[j].raw
              THEN h
              ELSE [h EXCEPT !.objs[j].raw =
                                Update(@, [dimensionFilterGroups |->
                                               Len(h.lists) + 1]),
                             !.lists = Append(h.lists, <<>>)]
        ref == h1.objs[j].raw.dimensionFilterGroups
    IN [h1 EXCEPT !.lists[ref] = Append(@, filter_group)]

\* Query.search_type(search_type)
search_type_(h, j, search_type) == SetRaw(h, j, [type |-> search_type])

\* Query.data_state(data_state)
data_state_(h, j, data_state) == SetRaw(h, j, [dataState |-> data_state])

\* a limit that does not cap the page size
LimitUncapped(q, limit_) ==
    LET maximum == limit_[1]
        start == IF Len(limit_) = 2 THEN limit_[2] ELSE 0
    IN [q EXCEPT !.meta = Update(@, [limit |-> maximum]),
                 !.raw = Update(@, [startRow |-> start,
                                    rowLimit |-> maximum])]

\* Query.limit(*limit_) on one Query
LimitQuery(q, limit_) ==
    LET maximum == limit_[1]
        start == IF Len(limit_) = 2 THEN limit_[2] ELSE 0
    IN [q EXCEPT !.meta = Update(@, [limit |-> maximum]),
                 !.raw = Update(@, [startRow |-> start,
                                    rowLimit |-> Min(PageCap, maximum)])]

limit_(h, j, args) == [h EXCEPT !.objs[j] = LimitQuery(@, args)]

\* a next that skips one row after every page
NextQuerySkipsRow(q) ==
    LET step == Get(q.raw, "rowLimit", DefaultRowLimit)
        start == Get(q.raw, "startRow", 0) + step + 1
    IN [q EXCEPT !.raw = Update(@, [startRow |-> start])]

\* a next that leaves startRow where it is
NextQueryStays(q) == q

\* Query.next() on one Query
NextQuery(q) ==
    LET step == Get(q.raw, "rowLimit", DefaultRowLimit)
        start == Get(q.raw, "startRow", 0) + step
    IN [q EXCEPT !.raw = Update(@, [startRow |-> start])]

next_(h, j) == [h EXCEPT !.objs[j] = NextQuery(@)]

\* The value of a raw dict: the list reference replaced by the list
RawValue(ls, raw) ==
    IF "dimensionFilterGroups" \in DOMAIN raw
    THEN [dimensionFilterGroups |-> ls[raw.dimensionFilterGroups]] @@ raw
    ELSE raw

\* Query.build(copy=True): a deep copy of raw, as sent in a request
build(ls, q) == RawValue(ls, q.raw)

\* what a caller can observe of a Query: its raw dict, the filter-group list
\* read through the reference, and its meta dict
QueryValue(ls, q) == [raw |-> RawValue(ls, q.raw), meta |-> q.meta]

\* an equality that also compares meta
EqRawAndMeta(ls, a, b) ==
    RawValue(ls, a.raw) = RawValue(ls, b.raw) /\ a.meta = b.meta

\* Query.__eq__
QueryEq(ls, a, b) == RawValue(ls, a.raw) = RawValue(ls, b.raw)

----------------------------------------------------------------------------
(* account.py: the base query of a WebProperty *)

SiteUrl == "https://www.example.com/"

\* WebProperty.__init__: self.query = query.Query(self)
BaseQuery == QueryInit(SiteUrl, EmptyDict, EmptyDict)

\* the site list of an account with the one property
OneSite == <<[siteUrl |-> SiteUrl, permissionLevel |-> "siteOwner"]>>

----------------------------------------------------------------------------
(* The caller's mutator calls.  utils.immutable: obj = self.clone();       *)
(* method(obj, ...); return obj.                                           *)

Heap == [objs |-> objs, lists |-> lists]

NoCall == [op |-> "none", recv |-> 0, res |-> 0, args |-> <<>>]

\* the wrapped method returned: the caller now holds the object h.new
Returned(h, op, recv, args) ==
    /\ objs' = h.objs
    /\ lists' = h.lists
    /\ lastcall' = [op |-> op, recv |-> recv, res |-> h.new, args |-> args]

\* the method raised: the clone is dropped, no Query is returned
Raised(op, recv, args) ==
    /\ UNCHANGED <<objs, lists>>
    /\ lastcall' = [op |-> op, recv |-> recv, res |-> 0, args |-> args]

RangeArgs ==
    {<<StrArg(IsoFormat(<<2017, 1, 1>>)), StrArg(IsoFormat(<<2017, 1, 3>>)), 0, 0>>,
     <<DateArg(<<2017, 1, 3>>), DateArg(<<2017, 1, 1>>), 0, 0>>,
     <<StrArg(IsoFormat(<<2017, 1, 1>>)), NoneArg, 0, 3>>,
     <<StrArg(StrToday), NoneArg, 0, -7>>,
     <<NoneArg, NoneArg, 1, 0>>,
     <<StrArg(IsoFormat(<<2017, 1, 1>>)), StrArg(IsoFormat(<<2017, 1, 3>>)), 0, 3>>,
     <<StrArg(<<"s", "o", "o", "n">>), NoneArg, 0, 0>>,
     <<NoneArg, DateArg(<<2017, 1, 3>>), -1, 0>>,
     <<StrArg(StrToday), StrArg(IsoFormat(<<2017, 1, 3>>)), 0, -7>>}

DimensionArgs == {<<>>, <<"date">>, <<"query", "date">>}

FilterArgs == {<<"query", "dress", "contains", "and">>,
               <<"page", "/womens-clothing/", "equals", "and">>}

SearchTypes == {"web", "discover", "googleNews"}

DataStates == {"final", "all"}

LimitTotals == {0, 1, MaxLimit, PageCap, PageCap + 1}

LimitArgs == {<<n>> : n \in LimitTotals}
                 \cup {<<a, b>> : a \in {1, MaxLimit}, b \in 0 .. MaxStart}

Range(recv) ==
    \E a \in RangeArgs :
        /\ Len(objs) < MaxObjs
        /\ LET r == daterange(a[1], a[2], a[4], a[3], today)
               c == Clone(Heap, recv)
           IN IF r.err # ""
              THEN Raised("range", recv, a)
              ELSE Returned(range_(c, c.new, r.start, r.stop),
                            "range", recv, a)
        /\ UNCHANGED <<envVars, getVars, authVars>>

Dimension(recv) ==
    \E a \in DimensionArgs :
        /\ Len(objs) < MaxObjs
        /\ LET c == Clone(Heap, recv)
           IN Returned(dimension_(c, c.new, a), "dimension", recv, a)
        /\ UNCHANGED <<envVars, getVars, authVars>>

Filter(recv) ==
    \E a \in FilterArgs :
        /\ Len(objs) < MaxObjs
        /\ LET c == Clone(Heap, recv)
           IN Returned(filter_(c, c.new, a[1], a[2], a[3], a[4]),
                       "filter", recv, a)
        /\ UNCHANGED <<envVars, getVars, authVars>>

SearchType(recv) ==
    \E a \in SearchTypes :
        /\ Len(objs) < MaxObjs
        /\ LET c == Clone(Heap, recv)
           IN Returned(search_type_(c, c.new, a), "search_type", recv, a)
        /\ UNCHANGED <<envVars, getVars, authVars>>

DataState(recv) ==
    \E a \in DataStates :
        /\ Len(objs) < MaxObjs
        /\ LET c == Clone(Heap, recv)
           IN Returned(data_state_(c, c.new, a), "data_state", recv, a)
        /\ UNCHANGED <<envVars, getVars, authVars>>

Limit(recv) ==
    \E a \in LimitArgs :
        /\ Len(objs) < MaxObjs
        /\ run.pc # "loop"
        /\ LET c == Clone(Heap, recv)
           IN Returned(limit_(c, c.new, a), "limit", recv, a)
        /\ UNCHANGED <<envVars, getVars, authVars>>

\* the caller of the pagination scenario derives one query from the base query
LimitBase ==
    \E a \in LimitArgs \cup {<<PageCap - 1>>} :
        /\ Len(objs) = 1
        /\ run.pc # "loop"
        /\ LET c == Clone(Heap, 1)
           IN Returned(limit_(c, c.new, a), "limit", 1, a)
        /\ UNCHANGED <<envVars, getVars, authVars>>

NextCall(recv) ==
    /\ Len(objs) < MaxObjs
    /\ LET c == Clone(Heap, recv)
       IN Returned(next_(c, c.new), "next", recv, <<>>)
    /\ UNCHANGED <<envVars, getVars, authVars>>

CloneCall(recv) ==
    /\ Len(objs) < MaxObjs
    /\ Returned(Clone(Heap, recv), "clone", recv, <<>>)
    /\ UNCHANGED <<envVars, getVars, authVars>>

----------------------------------------------------------------------------
(* The specification of the query builder: a caller holding the base query *)
(* of a web property calls mutators on any Query it holds.                 *)

Todays == {<<2017, 3, 1>>, <<2016, 3, 1>>}

IdleRun == [pc |-> "idle"]
NoReport == [valid |-> FALSE]
NoFile == [exists |-> FALSE, content |-> <<>>]
NoCredentials == [none |-> TRUE]
NoAuthCall == [op |-> "none"]

InitQuery ==
    /\ objs = <<BaseQuery>>
    /\ lists = <<>>
    /\ lastcall = NoCall
    /\ today \in Todays
    /\ data = 0
    /\ run = IdleRun
    /\ full = NoReport
    /\ clock = Epoch
    /\ locks = EmptyDict
    /\ fs = NoFile
    /\ held = NoCredentials
    /\ sites = OneSite
    /\ call = NoAuthCall

NextQueryBuilder ==
    \/ \E recv \in DOMAIN objs : Range(recv)
    \/ \E recv \in DOMAIN objs : Dimension(recv)
    \/ \E recv \in DOMAIN objs : Filter(recv)
    \/ \E recv \in DOMAIN objs : SearchType(recv)
    \/ \E recv \in DOMAIN objs : DataState(recv)
    \/ \E recv \in DOMAIN objs : Limit(recv)
    \/ \E recv \in DOMAIN objs : NextCall(recv)
    \/ \E recv \in DOMAIN objs : CloneCall(recv)

SpecQuery == InitQuery /\ [][NextQueryBuilder]_vars

----------------------------------------------------------------------------
(* The specification of the date-range resolver: one call is made, either *)
(* utils.daterange with any combination of start, stop, days and months,   *)
(* or range() on the base query.                                           *)

MaxDays == 3        \* largest day offset, either way
MaxMonths == 2      \* largest month offset, either way

RangeDates == {<<2017, 1, 1>>, <<2017, 1, 3>>, <<2016, 2, 28>>,
               <<2016, 12, 31>>, <<2017, 1, 31>>}

StrSoon == <<"s", "o", "o", "n">>

StartArgs ==
    {NoneArg, StrArg(StrToday), StrArg(StrYesterday), StrArg(StrSoon)}
        \cup {DateArg(d) : d \in RangeDates}
        \cup {StrArg(IsoFormat(d)) : d \in RangeDates}

StopArgs ==
    {NoneArg, StrArg(StrSoon)}
        \cup {DateArg(d) : d \in RangeDates}
        \cup {StrArg(IsoFormat(d)) : d \in RangeDates}

\* no call has been made yet
Fresh == call.op = "none" /\ lastcall.op = "none"

\* utils.daterange(start, stop, days, months)
Resolve ==
    /\ Fresh
    /\ \E start \in StartArgs, stop \in StopArgs,
          days \in -MaxDays .. MaxDays, months \in -MaxMonths .. MaxMonths :
           LET r == daterange(start, stop, days, months, today)
           IN call' = [op |-> "daterange",
                       start |-> start,
                       stop |-> stop,
                       days |-> days,
                       months |-> months,
                       err |-> r.err,
                       pair |-> <<r.start, r.stop>>]
    /\ UNCHANGED <<queryVars, envVars, getVars, fs, held>>

InitRange ==
    /\ objs = <<BaseQuery>>
    /\ lists = <<>>
    /\ lastcall = NoCall
    /\ today \in Todays
    /\ data = 0
    /\ run = IdleRun
    /\ full = NoReport
    /\ clock = Epoch
    /\ locks = EmptyDict
    /\ fs = NoFile
    /\ held = NoCredentials
    /\ sites = OneSite
    /\ call = NoAuthCall

NextRange ==
    \/ Resolve
    \/ Fresh /\ Range(1)

SpecRange == InitRange /\ [][NextRange]_vars

----------------------------------------------------------------------------
(* The Search Analytics API.  The property holds `data` rows, numbered from *)
(* 0; a row is identified by its number.  A list of rows is kept as the     *)
(* sequence of its maximal runs of consecutive rows, [first, count]: the    *)
(* rows 3,4,5,9 are <<[first |-> 3, count |-> 3], [first |-> 9, count |-> 1]>>. *)

RECURSIVE RowCount(_)
RowCount(rows) ==
    IF rows = <<>> THEN 0 ELSE Head(rows).count + RowCount(Tail(rows))

\* rows + more, for `more` one run of rows or none
Extend(rows, more) ==
    IF more = <<>> THEN rows
    ELSE IF rows = <<>> THEN more
    ELSE LET last == rows[Len(rows)]
             m == more[1]
         IN IF last.first + last.count = m.first
            THEN [rows EXCEPT ![Len(rows)].count = @ + m.count]
            ELSE rows \o more

\* rows[:n]
RECURSIVE Prefix(_, _)
Prefix(rows, n) ==
    IF n <= 0 \/ rows = <<>> THEN <<>>
    ELSE IF Head(rows).count >= n
         THEN <<[first |-> Head(rows).first, count |-> n]>>
    ELSE <<Head(rows)>> \o Prefix(Tail(rows), n - Head(rows).count)

\* rows[n:]
RECURSIVE Drop(_, _)
Drop(rows, n) ==
    IF rows = <<>> THEN <<>>
    ELSE IF n <= 0 THEN rows
    ELSE IF Head(rows).count > n
         THEN <<[first |-> Head(rows).first + n, count |-> Head(rows).count - n]>>
                  \o Tail(rows)
    ELSE Drop(Tail(rows), n - Head(rows).count)

\* rows[a:b]
Slice(rows, a, b) == Prefix(Drop(rows, a), b - a)

\* the rows startRow .. startRow + rowLimit - 1 that exist
Window(startRow, rowLimit, n) ==
    IF startRow < n /\ rowLimit >= 1
    THEN <<[first |-> startRow, count |-> Min(rowLimit, n - startRow)]>>
    ELSE <<>>

\* the API refuses a request outside its documented ranges with an HttpError
ApiAccepts(body) ==
    /\ body.startRow >= 0
    /\ body.rowLimit >= 1
    /\ body.rowLimit <= 25000

\* searchanalytics().query(siteUrl, body).execute() on an accepted request:
\* the response has no 'rows' key when the window is empty
ApiResponse(body, n) ==
    LET w == Window(body.startRow, body.rowLimit, n)
    IN IF w = <<>> THEN EmptyDict ELSE [rows |-> w]

----------------------------------------------------------------------------
(* query.py: Report *)

\* metrics that keep position for every search type
MetricsWithPosition(query) == <<"clicks", "impressions", "ctr", "position">>

\* Report._build_metrics(query)
build_metrics(query) ==
    IF Get(query.raw, "type", "") \in {"discover", "googleNews"}
    THEN <<"clicks", "impressions", "ctr">>
    ELSE <<"clicks", "impressions", "ctr", "position">>

\* an append that keeps the rows of the last page only
ReportAppendReplaces(report, raw, query) ==
    [report EXCEPT !.raw = Append(@, raw),
                   !.queries = Append(@, query),
                   !.is_complete = (Get(raw, "rows", <<>>) = <<>>),
                   !.rows = Get(raw, "rows", <<>>)]

\* Report.append(raw, query)
ReportAppend(report, raw, query) ==
    LET step == Get(query.raw, "rowLimit", DefaultRowLimit)
        rows == Get(raw, "rows", <<>>)
    IN [report EXCEPT !.raw = Append(@, raw),
                      !.queries = Append(@, query),
                      !.is_complete = (rows = <<>>),
                      !.rows = Extend(@, rows)]

\* Report.__init__(raw, query)
ReportInit(raw, query) ==
    LET dimensions == Get(query.raw, "dimensions", <<>>)
        metrics == build_metrics(query)
    IN ReportAppend([none |-> FALSE,
                     raw |-> <<>>,
                     queries |-> <<>>,
                     dimensions |-> dimensions,
                     metrics |-> metrics,
                     columns |-> dimensions \o metrics,
                     rows |-> <<>>,
                     is_complete |-> FALSE],
                    raw, query)

\* report = None
NoneReport ==
    [none |-> TRUE, raw |-> <<>>, queries |-> <<>>, dimensions |-> <<>>,
     metrics |-> <<>>, columns |-> <<>>, rows |-> <<>>, is_complete |-> FALSE]

\* `if report:` -- None is false, and so is a Report with no rows (__len__)
Truthy(report) == ~report.none /\ RowCount(report.rows) > 0

----------------------------------------------------------------------------
(* query.py: Query.get() and Query.execute() *)

\* self._lock as the object i reads it: its own attribute once it has one,
\* the class attribute until then
LockOf(ls, i) == IF i \in DOMAIN ls THEN ls[i] ELSE ClassLock

\* Query._wait(): wait = max(0, 1 - (now - self._lock)); the time is then
\* written to self._lock
wait_(lock, now) == IF Second - (now - lock) > 0 THEN Second - (now - lock) ELSE 0

\* the _lock the cursor of the run reads: get() starts with cursor = self,
\* every later cursor is a clone made by next(), with no _lock of its own
CursorLock == IF run.requests = <<>> THEN LockOf(locks, run.self) ELSE ClassLock

\* execute() calls _wait() before the request: the clock after the sleep,
\* and the attribute written to the cursor
Waited ==
    LET t == clock + wait_(CursorLock, clock)
    IN /\ clock' = t
       /\ locks' = IF run.requests = <<>> THEN (run.self :> t) @@ locks ELSE locks

\* `while not (is_enough or is_complete)`: whether get() leaves the loop
LoopEnds(is_enough, is_complete) == is_enough \/ is_complete

\* a total that is enough only once it is exceeded
IsEnoughStrict(report, query) ==
    "limit" \in DOMAIN query.meta /\ RowCount(report.rows) > query.meta.limit

\* len(report.rows) >= self.meta.get('limit', float('inf'))
IsEnough(report, query) ==
    "limit" \in DOMAIN query.meta /\ RowCount(report.rows) >= query.meta.limit

\* get() is called on the Query i; nothing is fetched yet.  The cursor is
\* kept by value: its raw holds the filter-group list itself
GetCall(i) ==
    /\ run.pc # "loop"
    /\ clock < Epoch + MaxClock
    /\ run' = [pc |-> "loop",
               self |-> i,
               cursor |-> [objs[i] EXCEPT !.raw = build(lists, objs[i])],
               report |-> NoneReport,
               is_enough |-> FALSE,
               is_complete |-> FALSE,
               requests |-> <<>>,
               times |-> <<>>]
    /\ UNCHANGED <<queryVars, envVars, data, full, clock, locks, authVars>>

\* one pass of the loop: execute() sends the request and the API answers;
\* the page is merged, the flags are set and the cursor moves on.  get()
\* returns the report when the loop test then fails.
GetPage ==
    /\ run.pc = "loop"
    /\ Waited
    /\ LET body == run.cursor.raw
       IN /\ ApiAccepts(body)
          /\ LET chunk == ReportInit(ApiResponse(body, data), run.cursor)
                 report == IF Truthy(run.report)
                           THEN ReportAppend(run.report, chunk.raw[1], run.cursor)
                           ELSE chunk
                 is_enough == IsEnough(report, objs[run.self])
                 is_complete == report.is_complete
             IN run' = [run EXCEPT
                          !.pc = IF LoopEnds(is_enough, is_complete)
                                 THEN "done" ELSE "loop",
                          !.report = report,
                          !.is_enough = is_enough,
                          !.is_complete = is_complete,
                          !.cursor = NextQuery(run.cursor),
                          !.requests = Append(@, body),
                          !.times = Append(@, clock')]
    /\ UNCHANGED <<queryVars, envVars, data, full, authVars>>

\* a get() that sends a failed request again
GetFailsRetries ==
    /\ run.pc = "loop"
    /\ Waited
    /\ run' = [run EXCEPT !.requests = Append(@, run.cursor.raw),
                          !.times = Append(@, clock')]
    /\ UNCHANGED <<queryVars, envVars, data, full, authVars>>

\* execute() raises HttpError (the API refuses the request, or the transport
\* fails): get() ends with that error and returns nothing
GetFails ==
    /\ run.pc = "loop"
    /\ Waited
    /\ run' = [run EXCEPT !.pc = "error",
                          !.requests = Append(@, run.cursor.raw),
                          !.times = Append(@, clock')]
    /\ UNCHANGED <<queryVars, envVars, data, full, authVars>>

\* the caller keeps the returned Report: full_report = q.get()
KeepReport ==
    /\ run.pc = "done"
    /\ ~full.valid
    /\ full' = [valid |-> TRUE,
                query |-> QueryValue(lists, objs[run.self]),
                self |-> run.self,
                rows |-> run.report.rows,
                fetches |-> Len(run.requests)]
    /\ run' = IdleRun
    /\ UNCHANGED <<queryVars, envVars, data, clock, locks, authVars>>

----------------------------------------------------------------------------
(* The specification of pagination: the caller holds the base query q of a *)
(* web property with `data` rows, may derive q.limit(...) from it, and     *)
(* calls get() on either, keeping one Report to compare with.              *)

BigSizes == {PageCap - 1, PageCap, PageCap + 1, 2 * PageCap, 2 * PageCap + 1}

DataSizes == (0 .. MaxRows) \cup BigSizes

InitGet ==
    /\ objs = <<BaseQuery>>
    /\ lists = <<>>
    /\ lastcall = NoCall
    /\ today \in {<<2017, 3, 1>>}
    /\ data \in DataSizes
    /\ run = IdleRun
    /\ full = NoReport
    /\ clock = Epoch
    /\ locks = EmptyDict
    /\ fs = NoFile
    /\ held = NoCredentials
    /\ sites = OneSite
    /\ call = NoAuthCall

NextGet ==
    \/ LimitBase
    \/ \E i \in DOMAIN objs : GetCall(i)
    \/ GetPage
    \/ GetFails
    \/ KeepReport

SpecGet == InitGet /\ [][NextGet]_vars

----------------------------------------------------------------------------
(* The specification of request timing: get() runs on the base query while *)
(* time passes.                                                            *)

\* time passes
Tick ==
    /\ clock < Epoch + MaxClock
    /\ clock' = clock + 1
    /\ UNCHANGED <<queryVars, envVars, data, run, full, locks, authVars>>

NextRate ==
    \/ GetCall(1)
    \/ GetPage
    \/ GetFails
    \/ Tick

SpecRate == InitGet /\ [][NextRate]_vars

----------------------------------------------------------------------------
(* The specification of paging over built queries: the caller builds a     *)
(* query as a chain of mutator calls from the base query of a web property *)
(* with `data` rows, q.limit(...).dimension(...)..., and calls get() on    *)
(* the Query at the end of the chain.                                      *)

PageSizes == {0, 1, MaxRows, PageCap, 2 * PageCap + 1}

Building == run.pc = "idle"

InitPages ==
    /\ objs = <<BaseQuery>>
    /\ lists = <<>>
    /\ lastcall = NoCall
    /\ today \in {<<2017, 3, 1>>}
    /\ data \in PageSizes
    /\ run = IdleRun
    /\ full = NoReport
    /\ clock = Epoch
    /\ locks = EmptyDict
    /\ fs = NoFile
    /\ held = NoCredentials
    /\ sites = OneSite
    /\ call = NoAuthCall

NextPages ==
    \/ Building /\ LimitBase
    \/ Building /\ Range(Len(objs))
    \/ Building /\ Dimension(Len(objs))
    \/ Building /\ Filter(Len(objs))
    \/ Building /\ SearchType(Len(objs))
    \/ Building /\ NextCall(Len(objs))
    \/ GetCall(Len(objs))
    \/ GetPage
    \/ GetFails

SpecPages == InitPages /\ [][NextPages]_vars

----------------------------------------------------------------------------
(* The specification of paging against an API that serves every request it *)
(* accepts: no transport failure.  get() is a sequential loop, so a pass    *)
(* that can run does run.  The query is built with limit and next, the two  *)
(* mutators that write startRow, rowLimit and the row limit of get().       *)

\* execute() raises the HttpError of a request the API refuses
GetRefused ==
    /\ run.pc = "loop"
    /\ ~ApiAccepts(run.cursor.raw)
    /\ GetFails

NextServed ==
    \/ Building /\ LimitBase
    \/ Building /\ NextCall(Len(objs))
    \/ GetCall(Len(objs))
    \/ GetPage
    \/ GetRefused

SpecServed ==
    /\ InitPages
    /\ [][NextServed]_vars
    /\ WF_run(GetPage)
    /\ WF_run(GetRefused)

----------------------------------------------------------------------------
(* auth.py.  An argument of authenticate() is None, an empty mapping, a    *)
(* mapping, the path of the credential file, or a value of another type.   *)
(* The file at the path is absent, or holds the sequence `content`: empty  *)
(* for a file with nothing in it, one mapping for a JSON document.         *)

ArgNone == [kind |-> "none", v |-> EmptyDict]
ArgEmpty == [kind |-> "empty", v |-> EmptyDict]
ArgMapping(m) == [kind |-> "mapping", v |-> m]
ArgPath == [kind |-> "path", v |-> EmptyDict]
ArgOther == [kind |-> "other", v |-> EmptyDict]

\* Python truth of an argument: None and {} are false
IsTrue(arg) == arg.kind \notin {"none", "empty"}

\* a scopes value: None or a list
ScopesNone == [none |-> TRUE, items |-> <<>>]
ScopesList(l) == [none |-> FALSE, items |-> l]

\* Credentials.WEBMASTER_SCOPES
WEBMASTER_SCOPES == <<"https://www.googleapis.com/auth/webmasters.readonly">>

\* utils.parse_config(data_or_file_path): a mapping is returned as it is, a
\* path is read and parsed, any other type is refused
parse_config(arg, file) ==
    IF arg.kind \in {"mapping", "empty"} THEN [err |-> "", data |-> arg.v]
    ELSE IF arg.kind = "path"
         THEN IF ~file.exists
              THEN [err |-> "FileNotFoundError", data |-> EmptyDict]
              ELSE IF file.content = <<>>
              THEN [err |-> "JSONDecodeError", data |-> EmptyDict]
              ELSE [err |-> "", data |-> file.content[1]]
    ELSE [err |-> "ValueError", data |-> EmptyDict]

OAuth2Keys == {"token", "refresh_token", "id_token", "token_uri", "client_id",
               "client_secret"}

\* OAuth2Credentials.from_dict(data): google.oauth2.credentials.Credentials
\* built from six keys of data; its scopes parameter is left at its default
OAuth2FromDict(info) ==
    IF ~(OAuth2Keys \subseteq DOMAIN info)
    THEN [err |-> "KeyError", cred |-> NoCredentials]
    ELSE [err |-> "",
          cred |-> [none |-> FALSE,
                    variant |-> "oauth2",
                    c |-> [token |-> info.token,
                           refresh_token |-> info.refresh_token,
                           id_token |-> info.id_token,
                           token_uri |-> info.token_uri,
                           client_id |-> info.client_id,
                           client_secret |-> info.client_secret,
                           scopes |-> ScopesNone]]]

\* OAuth2Credentials.to_dict()
OAuth2ToDict(cred) ==
    [err |-> "",
     value |-> [token |-> cred.c.token,
                refresh_token |-> cred.c.refresh_token,
                id_token |-> cred.c.id_token,
                token_uri |-> cred.c.token_uri,
                client_id |-> cred.c.client_id,
                client_secret |-> cred.c.client_secret,
                scopes |-> cred.c.scopes]]

\* ServiceAccountCredentials.from_dict(data)
ServiceAccountFromDict(info) ==
    IF "client_email" \notin DOMAIN info
    THEN [err |-> "ValueError", cred |-> NoCredentials]
    ELSE [err |-> "",
          cred |-> [none |-> FALSE,
                    variant |-> "service_account",
                    c |-> [service_account_email |-> info.client_email,
                           scopes |-> ScopesList(WEBMASTER_SCOPES)]]]

\* a to_dict that returns the service account's fields
ServiceAccountToDictFields(cred) ==
    [err |-> "",
     value |-> [client_email |-> cred.c.service_account_email,
                scopes |-> cred.c.scopes]]

\* ServiceAccountCredentials.to_dict(): raise ValueError
ServiceAccountToDict(cred) == [err |-> "ValueError", value |-> EmptyDict]

\* credentials.to_dict(), by the class of the credentials
ToDict(cred) ==
    IF cred.variant = "oauth2" THEN OAuth2ToDict(cred)
    ELSE ServiceAccountToDict(cred)

\* Credentials.serialize(file_path): open(file_path, "w") leaves an empty
\* file, then to_dict() is evaluated and its value dumped
Serialize(cred, file) ==
    LET d == ToDict(cred)
    IN IF d.err # ""
       THEN [err |-> d.err, fs |-> [exists |-> TRUE, content |-> <<>>]]
       ELSE [err |-> "", fs |-> [exists |-> TRUE, content |-> <<d.value>>]]

Flows == {"web", "console", "batch"}

\* the credentials an interactive flow ends with (flow.credentials)
FlowCredentials(client_config) ==
    [none |-> FALSE,
     variant |-> "oauth2",
     c |-> [token |-> "flow-token",
            refresh_token |-> "flow-refresh",
            id_token |-> "id",
            token_uri |-> client_config.token_uri,
            client_id |-> client_config.client_id,
            client_secret |-> client_config.client_secret,
            scopes |-> ScopesList(WEBMASTER_SCOPES)]]

\* OAuth2Credentials.authenticate(client_config, flow)
OAuth2Authenticate(client_config, flow, file) ==
    LET cfg == parse_config(client_config, file)
    IN IF cfg.err # ""
       THEN [err |-> cfg.err, cred |-> NoCredentials, flow_started |-> FALSE]
       ELSE IF flow \in {"web", "console"}
       THEN [err |-> "", cred |-> FlowCredentials(cfg.data), flow_started |-> TRUE]
       ELSE [err |-> "ValueError: flow", cred |-> NoCredentials,
             flow_started |-> FALSE]

\* Credentials.from_config(data_or_file_path) of OAuth2Credentials
OAuth2FromConfig(arg, file) ==
    LET cfg == parse_config(arg, file)
    IN IF cfg.err # "" THEN [err |-> cfg.err, cred |-> NoCredentials]
       ELSE OAuth2FromDict(cfg.data)

\* Credentials.from_config(data_or_file_path) of ServiceAccountCredentials
ServiceAccountFromConfig(arg, file) ==
    LET cfg == parse_config(arg, file)
    IN IF cfg.err # "" THEN [err |-> cfg.err, cred |-> NoCredentials]
       ELSE ServiceAccountFromDict(cfg.data)

\* a check that looks at client_config alone
ConflictConfigOnly(client_config, credentials, service_account) ==
    IsTrue(client_config) /\ IsTrue(service_account)

\* `(client_config or credentials) and service_account`
SourceConflict(client_config, credentials, service_account) ==
    (IsTrue(client_config) \/ IsTrue(credentials)) /\ IsTrue(service_account)

\* the if/elif chain of authenticate(): which source is used
SourceUsed(client_config, credentials, service_account) ==
    IF IsTrue(credentials) THEN "credentials"
    ELSE IF IsTrue(client_config) THEN "client_config"
    ELSE IF IsTrue(service_account) THEN "service_account"
    ELSE "none"

\* authenticate(client_config, credentials, serialize, flow, service_account):
\* how it ends, what it did on the way, and the file it leaves
authenticate(client_config, credentials, serialize, flow, service_account, file) ==
    LET failed(err, built, started, session, f) ==
            [err |-> err, built |-> built, flow_started |-> started,
             session |-> session, cred |-> NoCredentials, fs |-> f]
        used == SourceUsed(client_config, credentials, service_account)
        got == IF used = "credentials"
               THEN OAuth2FromConfig(credentials, file) @@ [flow_started |-> FALSE]
               ELSE IF used = "client_config"
               THEN OAuth2Authenticate(client_config, flow, file)
               ELSE ServiceAccountFromConfig(service_account, file)
                        @@ [flow_started |-> FALSE]
    IN IF SourceConflict(client_config, credentials, service_account)
       THEN failed("ValueError: only one", 0, FALSE, FALSE, file)
       ELSE IF used = "none"
       THEN failed("ValueError: must be provided", 0, FALSE, FALSE, file)
       ELSE IF got.err # ""
       THEN failed(got.err, 0, FALSE, FALSE, file)
       ELSE IF serialize
       THEN LET w == Serialize(got.cred, file)
            IN IF w.err # ""
               THEN failed(w.err, 1, got.flow_started, TRUE, w.fs)
               ELSE [err |-> "", built |-> 1, flow_started |-> got.flow_started,
                     session |-> TRUE, cred |-> got.cred, fs |-> w.fs]
       ELSE [err |-> "", built |-> 1, flow_started |-> got.flow_started,
             session |-> TRUE, cred |-> got.cred, fs |-> file]

----------------------------------------------------------------------------
(* The specification of the credential layer: a caller authenticates with   *)
(* any combination of arguments, and reads or persists the credentials of   *)
(* the Account it was returned.                                             *)

CredMappings ==
    [token : {"token"},
     refresh_token : {"refresh"},
     id_token : {"id"},
     token_uri : {"https://oauth2.googleapis.com/token"},
     client_id : {"client"},
     client_secret : {"secret"},
     scopes : {ScopesNone, ScopesList(WEBMASTER_SCOPES)}]

ClientConfig == [token_uri |-> "https://oauth2.googleapis.com/token",
                 client_id |-> "client",
                 client_secret |-> "secret"]

ServiceAccountInfo == [client_email |-> "robot@project.iam.gserviceaccount.com",
                       private_key |-> "key"]

ClientConfigArgs == {ArgNone, ArgMapping(ClientConfig)}

CredentialsArgs ==
    {ArgNone, ArgEmpty, ArgPath, ArgOther} \cup {ArgMapping(m) : m \in CredMappings}

ServiceAccountArgs == {ArgNone, ArgEmpty, ArgMapping(ServiceAccountInfo)}

Authenticate ==
    \E cc \in ClientConfigArgs, cr \in CredentialsArgs, sa \in ServiceAccountArgs,
       ser \in BOOLEAN, flow \in Flows :
        LET r == authenticate(cc, cr, ser, flow, sa, fs)
        IN /\ call' = [op |-> "authenticate",
                       client_config |-> cc,
                       credentials |-> cr,
                       service_account |-> sa,
                       serialize |-> ser,
                       flow |-> flow,
                       err |-> r.err,
                       built |-> r.built,
                       flow_started |-> r.flow_started,
                       session |-> r.session,
                       returned |-> r.cred,
                       before |-> fs]
           /\ fs' = r.fs
           /\ held' = IF r.err = "" THEN r.cred ELSE held
           /\ UNCHANGED <<queryVars, envVars, getVars>>

\* cls.from_dict(info), cls one of the two Credentials classes
FromDictCall ==
    \E cls \in {"oauth2", "service_account"},
       info \in CredMappings \cup {ServiceAccountInfo} :
        LET r == IF cls = "oauth2" THEN OAuth2FromDict(info)
                 ELSE ServiceAccountFromDict(info)
        IN /\ call' = [op |-> "from_dict", cls |-> cls, info |-> info,
                       err |-> r.err]
           /\ held' = IF r.err = "" THEN r.cred ELSE held
           /\ UNCHANGED <<queryVars, envVars, getVars, fs>>

\* account.credentials.to_dict()
ToDictCall ==
    /\ ~held.none
    /\ LET d == ToDict(held)
       IN call' = [op |-> "to_dict", err |-> d.err, value |-> d.value]
    /\ UNCHANGED <<queryVars, envVars, getVars, fs, held>>

\* account.credentials.serialize(path)
SerializeCall ==
    /\ ~held.none
    /\ LET w == Serialize(held, fs)
       IN /\ call' = [op |-> "serialize", err |-> w.err]
          /\ fs' = w.fs
    /\ UNCHANGED <<queryVars, envVars, getVars, held>>

\* the file is removed (os.remove)
RemoveFile ==
    /\ fs.exists
    /\ fs' = NoFile
    /\ call' = [op |-> "remove"]
    /\ UNCHANGED <<queryVars, envVars, getVars, held>>

InitAuth ==
    /\ objs = <<BaseQuery>>
    /\ lists = <<>>
    /\ lastcall = NoCall
    /\ today \in {<<2017, 3, 1>>}
    /\ data = 0
    /\ run = IdleRun
    /\ full = NoReport
    /\ clock = Epoch
    /\ locks = EmptyDict
    /\ fs = NoFile
    /\ held = NoCredentials
    /\ sites = OneSite
    /\ call = NoAuthCall

NextAuth ==
    \/ Authenticate
    \/ FromDictCall
    \/ ToDictCall
    \/ SerializeCall
    \/ RemoveFile

SpecAuth == InitAuth /\ [][NextAuth]_vars

----------------------------------------------------------------------------
(* account.py: the directory of web properties of an Account.  An item    *)
(* given to account[item] is a string or an integer.                       *)

MaxSites == 3       \* entries the lister returns

StrItem(u) == [kind |-> "str", v |-> u, i |-> 0]
IntItem(i) == [kind |-> "int", v |-> "", i |-> i]

\* WebProperty.__init__(raw, account)
WebProperty(raw, account) ==
    [account |-> account,
     raw |-> raw,
     url |-> raw.siteUrl,
     permission |-> raw.permissionLevel,
     query |-> QueryInit(raw.siteUrl, EmptyDict, EmptyDict)]

\* WebProperty.__eq__: the two __dict__ are equal, the queries under
\* Query.__eq__
WebPropertyEq(a, b) ==
    /\ a.account = b.account
    /\ a.raw = b.raw
    /\ a.url = b.url
    /\ a.permission = b.permission
    /\ QueryEq(<<>>, a.query, b.query)

\* Account.webproperties: one WebProperty per entry the lister returns
webproperties(account, entries) ==
    [k \in DOMAIN entries |-> WebProperty(entries[k], account)]

NoProperty == [none |-> TRUE]

\* a lookup that takes the last entry with the url
GetItemLast(account, item, entries) ==
    LET ps == webproperties(account, entries)
        matches == {k \in DOMAIN ps : item.kind = "str" /\ ps[k].url = item.v}
    IN IF item.kind = "str"
       THEN IF matches = {}
            THEN [err |-> "", result |-> NoProperty]
            ELSE [err |-> "",
                  result |-> [none |-> FALSE,
                              wp |-> ps[CHOOSE k \in matches :
                                            \A j \in matches : j <= k]]]
       ELSE IF item.i + 1 \in DOMAIN ps
            THEN [err |-> "", result |-> [none |-> FALSE, wp |-> ps[item.i + 1]]]
            ELSE [err |-> "IndexError", result |-> NoProperty]

\* Account.__getitem__(item): by exact url, the first match or None; by
\* integer, the list's own indexing (negative integers are left out)
GetItem(account, item, entries) ==
    LET ps == webproperties(account, entries)
        matches == {k \in DOMAIN ps : item.kind = "str" /\ ps[k].url = item.v}
    IN IF item.kind = "str"
       THEN IF matches = {}
            THEN [err |-> "", result |-> NoProperty]
            ELSE [err |-> "",
                  result |-> [none |-> FALSE,
                              wp |-> ps[CHOOSE k \in matches :
                                            \A j \in matches : k <= j]]]
       ELSE IF item.i + 1 \in DOMAIN ps
            THEN [err |-> "", result |-> [none |-> FALSE, wp |-> ps[item.i + 1]]]
            ELSE [err |-> "IndexError", result |-> NoProperty]

Urls == {"https://www.example.com/", "https://www.example.com/blog/",
         "sc-domain:example.com"}

SiteEntries ==
    [siteUrl : {"https://www.example.com/", "https://www.example.com/blog/"},
     permissionLevel : {"siteOwner", "siteFullUser"}]

SiteLists == UNION {[1 .. n -> SiteEntries] : n \in 0 .. MaxSites}

Items == {StrItem(u) : u \in Urls} \cup {IntItem(i) : i \in 0 .. MaxSites}

\* account[item]; the caller keeps the result of its previous lookup
Lookup ==
    \E item \in Items :
        /\ LET r == GetItem(1, item, sites)
           IN call' = [op |-> "getitem",
                       item |-> item,
                       err |-> r.err,
                       result |-> r.result,
                       prev |-> IF call.op = "getitem"
                                THEN [item |-> call.item, err |-> call.err,
                                      result |-> call.result]
                                ELSE [item |-> IntItem(0), err |-> "no call",
                                      result |-> NoProperty]]
        /\ UNCHANGED <<queryVars, envVars, getVars, fs, held>>

InitAccount ==
    /\ objs = <<BaseQuery>>
    /\ lists = <<>>
    /\ lastcall = NoCall
    /\ today \in {<<2017, 3, 1>>}
    /\ data = 0
    /\ run = IdleRun
    /\ full = NoReport
    /\ clock = Epoch
    /\ locks = EmptyDict
    /\ fs = NoFile
    /\ held = NoCredentials
    /\ sites \in SiteLists
    /\ call = NoAuthCall

NextAccount == Lookup

SpecAccount == InitAccount /\ [][NextAccount]_vars

----------------------------------------------------------------------------
(* Claims about pagination, checked under SpecGet *)

CeilDiv(a, b) == (a + b - 1) \div b

Max(a, b) == IF a >= b THEN a ELSE b

\* get() has returned a Report for a Query with no total limit and startRow 0
UnlimitedDone ==
    /\ run.pc = "done"
    /\ "limit" \notin DOMAIN objs[run.self].meta
    /\ objs[run.self].raw.startRow = 0

\* C1 as stated: for a dataset of N rows and page size P = rowLimit, with no
\* total limit and startRow 0, get() returns exactly the N rows after exactly
\* ceil(N/P) page fetches (one fetch for an empty dataset), and is_complete
\* is true after the last fetch.
C1_RowsAfterCeilFetches ==
    UnlimitedDone =>
        /\ run.report.rows = Window(0, data, data)
        /\ Len(run.requests)
               = Max(1, CeilDiv(data, objs[run.self].raw.rowLimit))
        /\ run.report.is_complete

\* the last mutator call was q.limit(n) with q the Query of the kept Report,
\* and get() has returned for q.limit(n)
LimitedDone(arity) ==
    /\ run.pc = "done"
    /\ full.valid
    /\ lastcall.op = "limit"
    /\ lastcall.recv = full.self
    /\ lastcall.res = run.self
    /\ Len(lastcall.args) = arity

C3_AtMostLimitRows ==
    (run.pc = "done" /\ "limit" \in DOMAIN objs[run.self].meta)
        => RowCount(run.report.rows) <= objs[run.self].meta.limit

\* C4 as stated: q.limit(start, n) sets startRow = start, meta.limit = n and
\* rowLimit = min(25000, n), and for n <= 25000 and at least start + n rows
\* in q.get(), q.limit(start, n).get() returns exactly n rows, the rows
\* [start : start + n] of q.get().
C4_StartThenTotal ==
    (lastcall.op = "limit" /\ Len(lastcall.args) = 2 /\ lastcall.args[2] >= 1) =>
        LET start == lastcall.args[1]
            n == lastcall.args[2]
            B == objs[lastcall.res]
        IN /\ B.raw.startRow = start
           /\ B.meta.limit = n
           /\ B.raw.rowLimit = Min(25000, n)
           /\ (LimitedDone(2) /\ n <= 25000
                   /\ RowCount(full.rows) >= start + n)
                  => /\ RowCount(run.report.rows) = n
                     /\ run.report.rows = Slice(full.rows, start, start + n)

----------------------------------------------------------------------------
(* Claims about the query builder, checked under SpecQuery *)

HasGroups(q) == "dimensionFilterGroups" \in DOMAIN q.raw

\* no two Query objects hold the same filter-group list
NoSharedList ==
    \A i, j \in DOMAIN objs :
        (i # j /\ HasGroups(objs[i]) /\ HasGroups(objs[j]))
            => objs[i].raw.dimensionFilterGroups # objs[j].raw.dimensionFilterGroups

\* a returned Query is a new object, and a clone has the receiver's raw
NewObjectReturned ==
    lastcall.res # 0 =>
        /\ lastcall.res # lastcall.recv
        /\ lastcall.op = "clone" =>
               RawValue(lists, objs[lastcall.res].raw)
                   = RawValue(lists, objs[lastcall.recv].raw)

\* no call changes the raw or meta of a Query that existed before it
ReceiverUnchanged ==
    \A i \in DOMAIN objs :
        /\ i \in DOMAIN objs'
        /\ QueryValue(lists', objs'[i]) = QueryValue(lists, objs[i])

\* C5: every mutator call (and clone) returns a Query object other than the
\* receiver, leaves raw and meta of every existing Query as they were, and
\* the result shares no filter-group list with any other Query; clone()
\* returns a Query whose raw equals the receiver's.
C5_ReceiverImmutable ==
    /\ [](NoSharedList /\ NewObjectReturned)
    /\ [][ReceiverUnchanged]_vars

\* C5 witness: a filter group was appended to a Query cloned from a Query
\* that already had a filter-group list of its own
C5_Witness ==
    /\ lastcall.op = "filter"
    /\ lastcall.res # 0
    /\ HasGroups(objs[lastcall.recv])
    /\ Len(RawValue(lists, objs[lastcall.res].raw).dimensionFilterGroups) = 2
    /\ Len(RawValue(lists, objs[lastcall.recv].raw).dimensionFilterGroups) = 1

IsMutator(op) ==
    op \in {"range", "dimension", "filter", "search_type", "data_state",
            "limit", "next"}

\* C6 as stated: the Query a mutator returns is never equal to the receiver
C6_AlwaysUnequal ==
    (IsMutator(lastcall.op) /\ lastcall.res # 0) =>
        ~QueryEq(lists, objs[lastcall.recv], objs[lastcall.res])

\* whether the call gives a raw parameter a value the receiver does not have
SetsNewValue(c, A) ==
    LET a == c.args
    IN CASE c.op = "filter" -> TRUE
         [] c.op = "next" -> Get(A.raw, "rowLimit", DefaultRowLimit) # 0
         [] c.op = "range" ->
                LET r == daterange(a[1], a[2], a[4], a[3], today)
                IN \/ "startDate" \notin DOMAIN A.raw
                   \/ A.raw.startDate # r.start
                   \/ A.raw.endDate # r.stop
         [] c.op = "dimension" ->
                "dimensions" \notin DOMAIN A.raw \/ A.raw.dimensions # a
         [] c.op = "search_type" ->
                "type" \notin DOMAIN A.raw \/ A.raw.type # a
         [] c.op = "data_state" ->
                "dataState" \notin DOMAIN A.raw \/ A.raw.dataState # a
         [] c.op = "limit" ->
                \/ A.raw.startRow # (IF Len(a) = 2 THEN a[2] ELSE 0)
                \/ A.raw.rowLimit # Min(25000, a[1])

\* C6 amended: the Query a mutator returns is unequal to the receiver exactly
\* when the call gives some raw parameter a value the receiver does not have;
\* a call that sets the values the receiver already has returns an equal
\* Query, whatever it does to meta.
C6_UnequalIffRawChanged ==
    (IsMutator(lastcall.op) /\ lastcall.res # 0) =>
        (~QueryEq(lists, objs[lastcall.recv], objs[lastcall.res])
            <=> SetsNewValue(lastcall, objs[lastcall.recv]))

\* C6 witness: limit() returned a Query equal to the receiver although the
\* two differ in meta
C6_Witness ==
    /\ lastcall.op = "limit"
    /\ lastcall.res # 0
    /\ QueryEq(lists, objs[lastcall.recv], objs[lastcall.res])
    /\ objs[lastcall.recv].meta # objs[lastcall.res].meta

\* C7: every Query reachable from the base query by mutator calls, and so
\* every request body built from one, has rowLimit <= 25000.
C7_PageCap ==
    \A i \in DOMAIN objs :
        Get(build(lists, objs[i]), "rowLimit", DefaultRowLimit) <= 25000

\* C7 witness: a Query whose requested total exceeds the page cap
C7_Witness ==
    \E i \in DOMAIN objs :
        /\ "limit" \in DOMAIN objs[i].meta
        /\ objs[i].meta.limit > 25000
        /\ objs[i].raw.rowLimit = 25000


----------------------------------------------------------------------------
(* Claims about the credential layer (SpecAuth).                            *)

\* C8 (as stated): the mapping form of OAuth2 credentials is a round trip:
\* credentials rebuilt from a persisted mapping d give back d from to_dict().
C8_RoundTrip ==
    (call.op = "from_dict" /\ call.cls = "oauth2" /\ call.err = "") =>
        OAuth2ToDict(held).value = call.info

IsServiceAccount(cred) == ~cred.none /\ cred.variant = "service_account"

\* C9: to_dict() and serialize(path) of service-account credentials always
\* end in an error, and authenticate(service_account=..., serialize=path)
\* ends in that error and returns no Account.
C9_ServiceAccountNeverSerialized ==
    /\ (call.op \in {"to_dict", "serialize"} /\ IsServiceAccount(held)) =>
            call.err = "ValueError"
    /\ (/\ call.op = "authenticate"
        /\ call.serialize
        /\ SourceUsed(call.client_config, call.credentials,
                      call.service_account) = "service_account"
        /\ ~SourceConflict(call.client_config, call.credentials,
                           call.service_account)) =>
            /\ call.err = "ValueError"
            /\ call.returned.none

C9_Witness ==
    /\ call.op = "serialize"
    /\ IsServiceAccount(held)
    /\ call.err = "ValueError"

Supplied(arg) == arg.kind # "none"

FailedBeforeAnything ==
    /\ call.err # ""
    /\ call.built = 0
    /\ ~call.flow_started
    /\ ~call.session

\* C10 (as stated): authenticate(client_config, credentials, service_account),
\* flow and serialize at their defaults, fails before anything is built
\* exactly when service_account is supplied with client_config or credentials,
\* or none of the three is supplied; otherwise one Credentials instance is
\* resolved and an Account returned.
C10_FailsExactlyOnBadSources ==
    (call.op = "authenticate" /\ call.flow = "web" /\ ~call.serialize) =>
        LET bad == \/ /\ Supplied(call.service_account)
                      /\ Supplied(call.client_config) \/ Supplied(call.credentials)
                   \/ /\ ~Supplied(call.service_account)
                      /\ ~Supplied(call.client_config)
                      /\ ~Supplied(call.credentials)
        IN /\ bad <=> FailedBeforeAnything
           /\ ~bad => (call.err = "" /\ call.built = 1 /\ ~call.returned.none)

SourceCheckError == {"ValueError: only one", "ValueError: must be provided"}

\* C10 (amended): the source check fails the call, before anything is built,
\* exactly when a non-empty service_account comes with a non-empty
\* client_config or credentials, or none of the three is non-empty.
\* Otherwise exactly one source is used, credentials before client_config
\* before service_account, and an Account holding the one Credentials
\* instance built from it is returned unless the source does not resolve
\* (unreadable or mistyped config, unsupported flow name) or serialize is
\* asked of service-account credentials; then the call ends in that error.
C10_SourceCheck ==
    call.op = "authenticate" =>
        LET cc == call.client_config
            cr == call.credentials
            sa == call.service_account
            bad == \/ IsTrue(sa) /\ (IsTrue(cc) \/ IsTrue(cr))
                   \/ ~IsTrue(sa) /\ ~IsTrue(cc) /\ ~IsTrue(cr)
            variant == IF IsTrue(cr) \/ IsTrue(cc) THEN "oauth2"
                       ELSE "service_account"
            unresolved == \/ IsTrue(cr) /\ cr.kind = "other"
                          \/ IsTrue(cr) /\ cr.kind = "path"
                                        /\ (~call.before.exists \/ call.before.content = <<>>)
                          \/ ~IsTrue(cr) /\ IsTrue(cc) /\ call.flow \notin {"web", "console"}
        IN /\ bad <=> (call.err \in SourceCheckError)
           /\ bad => FailedBeforeAnything
           /\ ~bad =>
                /\ call.built <= 1
                /\ call.flow_started <=>
                        (~IsTrue(cr) /\ IsTrue(cc) /\ call.flow \in {"web", "console"})
                /\ call.err = "" <=>
                        (~unresolved /\ ~(call.serialize /\ variant = "service_account"))
                /\ call.err = "" =>
                        /\ call.built = 1
                        /\ call.session
                        /\ ~call.returned.none
                        /\ call.returned.variant = variant
                        /\ held = call.returned

C10_Witness ==
    /\ call.op = "authenticate"
    /\ IsTrue(call.credentials)
    /\ call.service_account.kind = "empty"
    /\ call.err = ""
    /\ call.built = 1


----------------------------------------------------------------------------
(* Claims about Report and paging over built queries (SpecPages).           *)

\* the Report get() is accumulating or has returned
HasReport == run.pc \in {"loop", "done"} /\ ~run.report.none

\* the columns are the first page's query dimensions, then the metrics,
\* position left out exactly for discover and googleNews
SchemaOfFirstQuery ==
    HasReport =>
        LET q == run.report.queries[1]
            noPosition == /\ "type" \in DOMAIN q.raw
                          /\ q.raw.type \in {"discover", "googleNews"}
        IN /\ run.report.dimensions = Get(q.raw, "dimensions", <<>>)
           /\ run.report.metrics =
                  IF noPosition THEN <<"clicks", "impressions", "ctr">>
                  ELSE <<"clicks", "impressions", "ctr", "position">>
           /\ run.report.columns = run.report.dimensions \o run.report.metrics

\* a page is merged into the Report of the run: the columns stay
SchemaKept ==
    (HasReport /\ run'.pc \in {"loop", "done"} /\ ~run'.report.none)
        => run'.report.columns = run.report.columns

\* C11: the columns of a Report are the first page's query dimensions
\* followed by clicks, impressions, ctr, position, with position omitted
\* exactly when that query's search type is discover or googleNews, and they
\* are the same after every later append of a page.
C11_ReportSchema == []SchemaOfFirstQuery /\ [][SchemaKept]_vars

\* C11 witness: a second page was appended to the Report of a googleNews
\* query with a dimension
C11_Witness ==
    /\ HasReport
    /\ Len(run.report.raw) >= 2
    /\ run.report.columns = <<"date", "clicks", "impressions", "ctr">>


----------------------------------------------------------------------------
(* Claims about the directory of web properties (SpecAccount).              *)

\* the first listed entry with the url u, 0 if there is none
RECURSIVE FirstWith(_, _, _)
FirstWith(entries, u, k) ==
    IF k > Len(entries) THEN 0
    ELSE IF entries[k].siteUrl = u THEN k
    ELSE FirstWith(entries, u, k + 1)

\* C12: account[url] returns the first listed WebProperty whose url is the
\* string exactly, and None without an error when no entry matches;
\* account[0] and account[account[0].url] are equal WebProperty values.
C12_DirectoryLookup ==
    call.op = "getitem" =>
        /\ call.item.kind = "str" =>
              LET k == FirstWith(sites, call.item.v, 1)
              IN /\ call.err = ""
                 /\ call.result.none <=> k = 0
                 /\ k # 0 => /\ call.result.wp.raw = sites[k]
                             /\ call.result.wp.url = call.item.v
        /\ (/\ call.prev.item = IntItem(0)
            /\ call.prev.err = ""
            /\ call.item = StrItem(call.prev.result.wp.url)) =>
              /\ ~call.result.none
              /\ WebPropertyEq(call.prev.result.wp, call.result.wp)

\* C12 witness: account[0] then account[account[0].url] on a list whose
\* first url is listed twice with different permission levels
C12_Witness ==
    /\ call.op = "getitem"
    /\ call.prev.item = IntItem(0)
    /\ call.prev.err = ""
    /\ call.item = StrItem(call.prev.result.wp.url)
    /\ Len(sites) >= 2
    /\ sites[2].siteUrl = sites[1].siteUrl
    /\ sites[2].permissionLevel # sites[1].permissionLevel


----------------------------------------------------------------------------
(* Claims about the date-range resolver (SpecRange).                        *)

Resolved == call.op = "daterange"

\* the start argument names a date: a date, or a string for one
NamesDate(arg) ==
    \/ arg.kind = "date"
    \/ arg.kind = "str" /\ (IsIsoString(arg.v) \/ arg.v \in {StrToday, StrYesterday})

\* the date it names
DateOf(arg) ==
    IF arg.kind = "date" THEN arg.v
    ELSE IF arg.v = StrToday THEN today
    ELSE IF arg.v = StrYesterday THEN PrevDay(today)
    ELSE ParseIso(arg.v)

\* C13: for a start date s and a day offset d # 0, no stop and months = 0,
\* the pair is (s, s + d - 1) when d > 0 and (s - (|d| - 1), s) when d < 0.
C13_DayOffsetWindow ==
    (/\ Resolved
     /\ NamesDate(call.start)
     /\ call.stop = NoneArg
     /\ call.months = 0
     /\ call.days # 0) =>
        LET s == DateOf(call.start)
            d == call.days
        IN /\ call.err = ""
           /\ d > 0 => call.pair = <<IsoFormat(s), IsoFormat(AddDays(s, d - 1))>>
           /\ d < 0 => call.pair = <<IsoFormat(AddDays(s, d + 1)), IsoFormat(s)>>

\* C13 witness: start 2017-01-01 with days = 3 ends on 2017-01-03
C13_Witness ==
    /\ Resolved
    /\ call.start = StrArg(IsoFormat(<<2017, 1, 1>>))
    /\ call.stop = NoneArg
    /\ call.months = 0
    /\ call.days = 3
    /\ call.pair = <<IsoFormat(<<2017, 1, 1>>), IsoFormat(<<2017, 1, 3>>)>>

\* C14: a pair the resolver returns has start_date <= end_date, and an
\* explicit start and stop give the same pair in either order.
C14_SortedAndSymmetric ==
    (Resolved /\ call.err = "") =>
        /\ DateLE(ParseIso(call.pair[1]), ParseIso(call.pair[2]))
        /\ (NamesDate(call.start) /\ NamesDate(call.stop)) =>
               LET swapped == daterange(call.stop, call.start, call.days,
                                        call.months, today)
               IN swapped.err = "" /\ <<swapped.start, swapped.stop>> = call.pair

\* C14 witness: start later than stop, returned in ascending order
C14_Witness ==
    /\ Resolved
    /\ call.start = DateArg(<<2017, 1, 31>>)
    /\ call.stop = StrArg(IsoFormat(<<2016, 12, 31>>))
    /\ call.pair = <<IsoFormat(<<2016, 12, 31>>), IsoFormat(<<2017, 1, 31>>)>>

\* range() was called with a stop and a non-zero offset
RangeWithStopAndOffset ==
    /\ lastcall.op = "range"
    /\ lastcall.args[2] # NoneArg
    /\ lastcall.args[3] # 0 \/ lastcall.args[4] # 0

\* C15: an explicit stop together with a non-zero days or months offset
\* always ends in an error, for every start value, an omitted one included;
\* range() then returns no Query and the receiver is as it was.
C15_StopAndOffsetRefused ==
    /\ (Resolved /\ call.stop # NoneArg /\ (call.days # 0 \/ call.months # 0))
           => call.err # ""
    /\ RangeWithStopAndOffset =>
           /\ lastcall.res = 0
           /\ objs = <<BaseQuery>>
           /\ lists = <<>>

\* C15 witness: range(stop=2017-01-03, months=-1) on the base query raised
C15_Witness ==
    /\ RangeWithStopAndOffset
    /\ lastcall.args[1] = NoneArg
    /\ lastcall.res = 0


----------------------------------------------------------------------------
(* Claims about the get() loop (SpecGet, SpecPages).                        *)

\* C16 as stated: after every Report.append(page, query), the one at
\* construction included, is_complete is true exactly when the page has
\* fewer rows than the query's rowLimit.
C16_CompleteIffShortPage ==
    HasReport =>
        LET k == Len(run.report.raw)
            page == Get(run.report.raw[k], "rows", <<>>)
            query == run.report.queries[k]
        IN run.report.is_complete <=> RowCount(page) < query.raw.rowLimit


\* get() is running or has ended, in a Report or in an error
InRun == run.pc \in {"loop", "done", "error"}

\* C17: the k-th request of a get() run (k = 0, 1, ...) has startRow =
\* s0 + k * rowLimit, s0 and rowLimit those of the Query get() was called on,
\* and every other parameter of the request is that Query's.
C17_CursorAdvance ==
    InRun =>
        LET q == build(lists, objs[run.self])
        IN \A k \in DOMAIN run.requests :
               run.requests[k] =
                   [startRow |-> q.startRow + (k - 1) * q.rowLimit] @@ q

\* C17 witness: a third request of a run on a filtered Query that starts at
\* row 25000
C17_Witness ==
    /\ InRun
    /\ Len(run.requests) >= 3
    /\ run.requests[1].startRow = 25000
    /\ "dimensionFilterGroups" \in DOMAIN run.requests[3]


\* C18 as stated: any two consecutive requests of a get() run are issued at
\* least one second apart.
C18_OneSecondApart ==
    InRun =>
        \A k \in DOMAIN run.times :
            k > 1 => run.times[k] - run.times[k - 1] >= Second


\* a pass of the loop that does not stop asks for a larger startRow next
StartRowGrows ==
    (run.pc = "loop" /\ run'.pc = "loop" /\ run.requests # run'.requests)
        => run'.cursor.raw.startRow > run.cursor.raw.startRow

\* get() ended in an error only on a request the API refuses
ErrorOnlyIfRefused ==
    run.pc = "error" => ~ApiAccepts(run.requests[Len(run.requests)])

\* C19: against an API that serves the requested windows of a finite
\* dataset, get() on any Query built by the mutators comes to an end, with
\* a Report unless the API refuses the request, and each pass that does not
\* stop requests a strictly larger startRow than the one before.
C19_GetTerminates ==
    /\ (run.pc = "loop") ~> (run.pc # "loop")
    /\ []ErrorOnlyIfRefused
    /\ [][StartRowGrows]_run

\* C19 witness: get() returned after four requests
C19_Witness ==
    /\ run.pc = "done"
    /\ Len(run.requests) = 4


\* no two requests of the run ask for the same row window
WindowsDistinct ==
    InRun =>
        \A j, k \in DOMAIN run.requests :
            j < k => run.requests[j].startRow # run.requests[k].startRow

\* a run that ended in an error has sent the failed request last
FailedRequestIsLast ==
    run.pc = "error" =>
        /\ run.requests # <<>>
        /\ run.requests[Len(run.requests)] = run.cursor.raw

\* a failed request is the end of the run
FailureEndsRun == GetFails => run'.pc = "error"

\* after the error no Report reaches the caller and the run sends nothing
\* more; the next request belongs to a new call of get()
FailureIsFinal ==
    run.pc = "error" =>
        /\ full' = full
        /\ \/ run' = run
           \/ run'.pc = "loop" /\ run'.requests = <<>>

\* C20: when the API request for a page fails, get() ends with that error:
\* the pages fetched so far are not returned, the run issues no further
\* request, and no row window is requested twice in a run.
C20_FailFast ==
    /\ []WindowsDistinct
    /\ []FailedRequestIsLast
    /\ [][FailureEndsRun]_vars
    /\ [][FailureIsFinal]_vars

\* C20 witness: the second request of a run failed after a page was fetched
C20_Witness ==
    /\ run.pc = "error"
    /\ Len(run.requests) = 2
    /\ ~run.report.none
    /\ ~full.valid


\* the rows of the payloads, one after the other
RECURSIVE RowsOfPages(_)
RowsOfPages(raws) ==
    IF raws = <<>> THEN <<>>
    ELSE Extend(RowsOfPages(SubSeq(raws, 1, Len(raws) - 1)),
                Get(raws[Len(raws)], "rows", <<>>))

\* get() holds a Report: a page was fetched and no request has failed
Accumulating == run.pc \in {"loop", "done"} /\ ~run.report.none

\* C21: the Report that get() builds and returns holds one raw payload and
\* one query per fetch of the run, in fetch order, the first fetched page
\* being the accumulator, and its rows are the rows of those payloads one
\* after the other, an empty page adding none.
C21_ReportAssembly ==
    Accumulating =>
        /\ Len(run.report.raw) = Len(run.requests)
        /\ Len(run.report.queries) = Len(run.requests)
        /\ \A k \in DOMAIN run.requests :
               /\ run.report.raw[k] = ApiResponse(run.requests[k], data)
               /\ run.report.queries[k].raw = run.requests[k]
        /\ run.report.rows = RowsOfPages(run.report.raw)

\* C21 witness: get() returned a Report of three pages with rows and a last,
\* empty page
C21_Witness ==
    /\ run.pc = "done"
    /\ Len(run.report.raw) = 4
    /\ run.report.raw[4] = EmptyDict
    /\ RowCount(run.report.rows) = data
    /\ data > 2 * PageCap


\* C22 as stated: every Query reachable from the base query by mutator calls
\* with integer arguments has startRow >= 0 and rowLimit >= 1.
C22_WindowBounds ==
    \A i \in DOMAIN objs :
        /\ Get(objs[i].raw, "startRow", 0) >= 0
        /\ Get(objs[i].raw, "rowLimit", DefaultRowLimit) >= 1


\* serialize(path) was called on service-account credentials and failed
ServiceAccountSerializeFails ==
    /\ ~held.none
    /\ IsServiceAccount(held)
    /\ SerializeCall
    /\ call'.err # ""

\* C23 as stated: when serialize(path) on service-account credentials fails,
\* the file at path is left as it was before the call: not created if
\* absent, not truncated or overwritten if present.
C23_FileUnchangedOnError ==
    [][ServiceAccountSerializeFails => fs' = fs]_fs

====
